---- MODULE Spec2Model ----
(***************************************************************************)
(* Model of src/shared/jwt.ts of hasura-backend-plus: the signing-key      *)
(* set-up run when the module is loaded, the derivation of the Hasura      *)
(* permission variables of an account, the issuing of a JWT and the        *)
(* verification of an Authorization header.                                *)
(*                                                                         *)
(* JavaScript strings that the code takes apart (object keys, custom       *)
(* field names, the Authorization header) are sequences of one-character   *)
(* strings; strings that are only built and compared (role names, ids,     *)
(* encoded values) are TLA+ strings.                                       *)
(***************************************************************************)
EXTENDS Integers, Sequences, FiniteSets, TLC

(***************************************************************************)
(* Bounds of the model.                                                    *)
(***************************************************************************)
\* longest account_roles sequence of an account
MaxRoles == 2
\* last instant of the clock
MaxTime == 2

(***************************************************************************)
(* Configuration read from ./config.                                       *)
(***************************************************************************)
RSA_TYPES == {"RS256", "RS384", "RS512"}
SHA_TYPES == {"HS256", "HS384", "HS512"}
\* CONFIG_JWT.EXPIRES_IN, in minutes; the clock of the model ticks in minutes
EXPIRES_IN == 1
DEFAULT_ANONYMOUS_ROLE == "anonymous"
DEFAULT_USER_ROLE == "user"

(***************************************************************************)
(* State.                                                                  *)
(*   cfg     CONFIG_JWT as read from ./config: ALGORITHM, KEY and          *)
(*           CUSTOM_FIELDS                                                 *)
(*   file    the file at CONFIG_JWT.KEY_FILE_PATH                          *)
(*   file0   the file as it was when the process started                   *)
(*   jwtKey  the module-level variable jwtKey                              *)
(*   phase   where the module's set-up of the key stands                   *)
(*   writes  how many writeFileSync calls have completed                   *)
(*   now     the clock, in minutes                                         *)
(*   issued  the token that sign returned last (NoToken before that)       *)
(*   last    the last call of an exported function, with what it returned  *)
(*   acct    the AccountData of the request in hand                        *)
(*   stage   how far the request in hand has got                           *)
(***************************************************************************)
VARIABLES cfg, file, file0, jwtKey, phase, writes, now, issued, last, acct, stage

vars == <<cfg, file, file0, jwtKey, phase, writes, now, issued, last, acct, stage>>

(***************************************************************************)
(* String.prototype.replace with a string pattern: the first occurrence    *)
(* of pat in s, wherever it is, is replaced by rep; s is returned as it is *)
(* when pat does not occur.                                                *)
(***************************************************************************)
OccursAt(s, pat, i) ==
    /\ i >= 1
    /\ i + Len(pat) - 1 <= Len(s)
    /\ SubSeq(s, i, i + Len(pat) - 1) = pat

IndexOf(s, pat) ==
    IF \E i \in 1..(Len(s) + 1) : OccursAt(s, pat, i)
    THEN CHOOSE i \in 1..(Len(s) + 1) :
            /\ OccursAt(s, pat, i)
            /\ \A j \in 1..(i - 1) : ~OccursAt(s, pat, j)
    ELSE 0

StartsWith(s, pat) == OccursAt(s, pat, 1)

\* a replace anchored at the start of the string (what a prefix strip would be)
ReplacePrefix(s, pat, rep) ==
    IF StartsWith(s, pat)
    THEN rep \o SubSeq(s, Len(pat) + 1, Len(s))
    ELSE s

\* replace with a global pattern: every occurrence goes
RECURSIVE ReplaceEvery(_, _, _)
ReplaceEvery(s, pat, rep) ==
    LET i == IndexOf(s, pat) IN
    IF i = 0 \/ pat = <<>> THEN s
    ELSE SubSeq(s, 1, i - 1) \o rep \o ReplaceEvery(SubSeq(s, i + Len(pat), Len(s)), pat, rep)

Replace(s, pat, rep) ==
    LET i == IndexOf(s, pat) IN
    IF i = 0 THEN s
    ELSE SubSeq(s, 1, i - 1) \o rep \o SubSeq(s, i + Len(pat), Len(s))

(***************************************************************************)
(* lodash.kebabCase on ASCII input: the string is split into words (a run  *)
(* of lower-case letters with an optional leading capital, a run of        *)
(* capitals, a run of digits; everything else separates words), the words  *)
(* are lower-cased and joined with "-".                                    *)
(***************************************************************************)
LowerCase == <<"a", "b", "c", "d", "e", "f", "g", "h", "i", "j", "k", "l", "m",
               "n", "o", "p", "q", "r", "s", "t", "u", "v", "w", "x", "y", "z">>
UpperCase == <<"A", "B", "C", "D", "E", "F", "G", "H", "I", "J", "K", "L", "M",
               "N", "O", "P", "Q", "R", "S", "T", "U", "V", "W", "X", "Y", "Z">>
LowerChars == {LowerCase[i] : i \in DOMAIN LowerCase}
UpperChars == {UpperCase[i] : i \in DOMAIN UpperCase}
DigitChars == {"0", "1", "2", "3", "4", "5", "6", "7", "8", "9"}

ToLower(c) ==
    IF c \in UpperChars
    THEN LowerCase[CHOOSE i \in DOMAIN UpperCase : UpperCase[i] = c]
    ELSE c

IsWordChar(c) == c \in LowerChars \cup UpperChars \cup DigitChars

\* whether a new word starts at position i of s
WordStart(s, i) ==
    /\ IsWordChar(s[i])
    /\ \/ i = 1
       \/ ~IsWordChar(s[i - 1])
       \/ s[i] \in UpperChars /\ s[i - 1] \in LowerChars
       \/ /\ s[i] \in UpperChars /\ s[i - 1] \in UpperChars
          /\ i < Len(s) /\ s[i + 1] \in LowerChars
       \/ s[i] \in DigitChars /\ s[i - 1] \notin DigitChars
       \/ s[i] \notin DigitChars /\ s[i - 1] \in DigitChars

RECURSIVE KebabFrom(_, _, _)
KebabFrom(s, i, out) ==
    IF i > Len(s) THEN out
    ELSE IF ~IsWordChar(s[i]) THEN KebabFrom(s, i + 1, out)
    ELSE IF WordStart(s, i) /\ out # <<>>
         THEN KebabFrom(s, i + 1, out \o <<"-", ToLower(s[i])>>)
         ELSE KebabFrom(s, i + 1, Append(out, ToLower(s[i])))

kebabCase(s) == KebabFrom(s, 1, <<>>)

(***************************************************************************)
(* JavaScript values read off the user record and carried in claims.       *)
(***************************************************************************)
JsValue(t, s, a, n, b) == [t |-> t, s |-> s, a |-> a, n |-> n, b |-> b]
VStr(s) == JsValue("string", s, <<>>, 0, FALSE)
VArr(a) == JsValue("array", "", a, 0, FALSE)
VNum(n) == JsValue("number", "", <<>>, n, FALSE)
VBool(b) == JsValue("boolean", "", <<>>, 0, b)
VNull == JsValue("null", "", <<>>, 0, FALSE)
VUndefined == JsValue("undefined", "", <<>>, 0, FALSE)
\* the object {"a":1}, carried as its JSON text
VObject == JsValue("object", "{\"a\":1}", <<>>, 0, FALSE)

\* JSON.stringify(v ?? null)
JsonStringify(v) ==
    CASE v.t = "number" -> ToString(v.n)
      [] v.t = "boolean" -> (IF v.b THEN "true" ELSE "false")
      [] v.t = "object" -> v.s
      [] v.t = "string" -> "\"" \o v.s \o "\""
      [] OTHER -> "null"

RECURSIVE Join(_, _)
Join(arr, sep) ==
    IF arr = <<>> THEN ""
    ELSE IF Len(arr) = 1 THEN arr[1]
    ELSE arr[1] \o sep \o Join(Tail(arr), sep)

\* each element in double quotes, joined with commas, in braces
toPgArray(arr) ==
    "{" \o Join([i \in DOMAIN arr |-> "\"" \o arr[i] \o "\""], ",") \o "}"

(***************************************************************************)
(* Objects are sequences of <<key, value>> pairs with distinct keys, in    *)
(* insertion order. Assigning to a key the object has replaces the value   *)
(* in place; assigning to a new key appends.                               *)
(***************************************************************************)
EmptyObject == <<>>

Keys(obj) == {obj[i][1] : i \in DOMAIN obj}

Get(obj, k) == obj[CHOOSE i \in DOMAIN obj : obj[i][1] = k][2]

ObjSet(obj, k, v) ==
    IF k \in Keys(obj)
    THEN [i \in DOMAIN obj |-> IF obj[i][1] = k THEN <<k, v>> ELSE obj[i]]
    ELSE Append(obj, <<k, v>>)

RECURSIVE ObjectFrom(_)
ObjectFrom(pairs) ==
    IF pairs = <<>> THEN EmptyObject
    ELSE LET n == Len(pairs) IN
         ObjSet(ObjectFrom(SubSeq(pairs, 1, n - 1)), pairs[n][1], pairs[n][2])

\* the mapping an object stands for, whatever the order of its keys
AsMap(obj) == [k \in Keys(obj) |-> Get(obj, k)]

XHasura == <<"x", "-", "h", "a", "s", "u", "r", "a", "-">>
UserIdKey == <<"u", "s", "e", "r", "-", "i", "d">>
AllowedRolesKey == <<"a", "l", "l", "o", "w", "e", "d", "-", "r", "o", "l", "e", "s">>
DefaultRoleKey == <<"d", "e", "f", "a", "u", "l", "t", "-", "r", "o", "l", "e">>

\* user[cursor]: undefined when the user record has no such property
UserField(user, cursor) ==
    IF cursor \in DOMAIN user.fields THEN user.fields[cursor] ELSE VUndefined

\* the value a custom field contributes
CustomFieldValue(user, cursor) ==
    LET v == UserField(user, cursor) IN
    IF v.t = "string" THEN v.s
    ELSE IF v.t = "array" THEN toPgArray(v.a)
    ELSE JsonStringify(v)

Includes(seq, x) == \E i \in DOMAIN seq : seq[i] = x

\* default_role || REGISTRATION.DEFAULT_USER_ROLE: an absent and an empty
\* default_role are both falsy
DefaultRoleOr(default_role) ==
    IF default_role.present /\ default_role.v # ""
    THEN default_role.v
    ELSE DEFAULT_USER_ROLE

\* the role with the test of is_anonymous left out
EffectiveRoleOfDefault(account) == DefaultRoleOr(account.default_role)

EffectiveRole(account) ==
    IF account.user.is_anonymous
    THEN DEFAULT_ANONYMOUS_ROLE
    ELSE DefaultRoleOr(account.default_role)

\* the push done whether or not the role is among the names
AllowedRolesAlwaysPush(account) ==
    Append(IF account.account_roles.present THEN account.account_roles.v ELSE <<>>,
           EffectiveRole(account))

\* account_roles = [] when absent, then the role names, then the push
AllowedRoles(account) ==
    LET role == EffectiveRole(account)
        accountRoles == IF account.account_roles.present
                        THEN account.account_roles.v
                        ELSE <<>>
    IN  IF ~Includes(accountRoles, role)
        THEN Append(accountRoles, role)
        ELSE accountRoles

generatePermissionVariables(account, jwt) ==
    LET prefix == IF jwt THEN XHasura ELSE <<>>
        role == EffectiveRole(account)
        base == << <<prefix \o UserIdKey, VStr(account.user.id)>>,
                   <<prefix \o AllowedRolesKey, VArr(AllowedRoles(account))>>,
                   <<prefix \o DefaultRoleKey, VStr(role)>> >>
        custom == [i \in DOMAIN cfg.CUSTOM_FIELDS |->
                     <<prefix \o kebabCase(cfg.CUSTOM_FIELDS[i]),
                       VStr(CustomFieldValue(account.user, cfg.CUSTOM_FIELDS[i]))>>]
    IN  ObjectFrom(base \o custom)

(***************************************************************************)
(* Keys. A key is either a string of the configuration or of the key file  *)
(* (text says what the string holds) or a JWK object of jose (kty, and     *)
(* whether it holds the private part). id names the key material: a public *)
(* key has the id of its private key.                                      *)
(***************************************************************************)
KeyString(text, id) == [form |-> "string", text |-> text, kty |-> "", priv |-> FALSE, id |-> id]
Jwk(kty, priv, id) == [form |-> "jwk", text |-> "", kty |-> kty, priv |-> priv, id |-> id]
NoKeyString == KeyString("empty", "")

\* if (jwtKey): the empty string is falsy
Truthy(k) == ~(k.form = "string" /\ k.text = "empty")

\* JWK.asKey: a PEM is parsed as the key it holds, any other non-empty
\* string is taken as a symmetric secret, a broken PEM is refused
AsKey(k) ==
    CASE k.form = "jwk" -> [ok |-> TRUE, key |-> k]
      [] k.form = "string" /\ k.text = "pemRSAPrivate" ->
            [ok |-> TRUE, key |-> Jwk("RSA", TRUE, k.id)]
      [] k.form = "string" /\ k.text = "pemRSAPublic" ->
            [ok |-> TRUE, key |-> Jwk("RSA", FALSE, k.id)]
      [] k.form = "string" /\ k.text = "raw" ->
            [ok |-> TRUE, key |-> Jwk("oct", FALSE, k.id)]
      [] OTHER -> [ok |-> FALSE, key |-> k]

\* key.toPEM(true) succeeds on an asymmetric key that holds its private part
ToPEMPrivateOk(key) == key.form = "jwk" /\ key.kty = "RSA" /\ key.priv

CanSign(key, alg) ==
    \/ alg \in RSA_TYPES /\ key.kty = "RSA" /\ key.priv
    \/ alg \in SHA_TYPES /\ key.kty = "oct"

CanVerify(key, alg) ==
    \/ alg \in RSA_TYPES /\ key.kty = "RSA"
    \/ alg \in SHA_TYPES /\ key.kty = "oct"

(***************************************************************************)
(* Tokens. A token is what its compact form decodes to: the algorithm of   *)
(* its header, the key material that made its signature, the standard      *)
(* claims and the value at the claims namespace (ns).                      *)
(***************************************************************************)
NsUndefined == [t |-> "undefined", o |-> EmptyObject]
NsObject(o) == [t |-> "object", o |-> o]

Token(alg, sig, sub, iat, exp, ns) ==
    [alg |-> alg, sig |-> sig, iss |-> "nhost", sub |-> sub, iat |-> iat, exp |-> exp, ns |-> ns]
NoToken == [alg |-> "", sig |-> "", iss |-> "", sub |-> "", iat |-> 0, exp |-> 0, ns |-> NsUndefined]

\* JSON text drops the properties whose value is undefined
IsDefined(pair) == pair[2].t # "undefined"
ToJson(ns) ==
    IF ns.t = "object" THEN NsObject(SelectSeq(ns.o, IsDefined)) ELSE ns

\* JWT.sign(payload, jwtKey, {algorithm, expiresIn, subject, issuer})
sign(payload, accountData) ==
    LET k == AsKey(jwtKey) IN
    IF k.ok /\ CanSign(k.key, cfg.ALGORITHM)
    THEN [ok |-> TRUE,
          token |-> Token(cfg.ALGORITHM, k.key.id, accountData.user.id,
                          now, now + EXPIRES_IN, ToJson(payload.ns))]
    ELSE [ok |-> FALSE, token |-> NoToken]

createHasuraJwt(accountData) ==
    sign([ns |-> NsObject(generatePermissionVariables(accountData, TRUE))], accountData)

(***************************************************************************)
(* The Authorization header and the string handed to JWT.verify are        *)
(* sequences of symbols: a character, or a whole compact token (which      *)
(* holds no space, so no "Bearer " lies inside one).                       *)
(***************************************************************************)
Ch(c) == [c |-> c, jwt |-> NoToken]
JwtSym(t) == [c |-> "", jwt |-> t]
Str(chars) == [i \in DOMAIN chars |-> Ch(chars[i])]
Bearer == Str(<<"B", "e", "a", "r", "e", "r", " ">>)

Header(s) == [present |-> TRUE, s |-> s]
NoHeader == [present |-> FALSE, s |-> <<>>]

\* verification that does not look at exp
verifyIgnoringExp(token, key) ==
    LET k == AsKey(key)
        t == IF Len(token) = 1 THEN token[1].jwt ELSE NoToken
    IN  IF /\ t # NoToken
           /\ k.ok
           /\ CanVerify(k.key, t.alg)
           /\ t.sig = k.key.id
        THEN [ok |-> TRUE, decodedToken |-> t]
        ELSE [ok |-> FALSE, decodedToken |-> NoToken]

\* JWT.verify(token, jwtKey): the string must be one compact token, its
\* signature made by the material of the key, its exp in the future
verify(token, key) ==
    LET k == AsKey(key)
        t == IF Len(token) = 1 THEN token[1].jwt ELSE NoToken
    IN  IF /\ t # NoToken
           /\ k.ok
           /\ CanVerify(k.key, t.alg)
           /\ t.sig = k.key.id
           /\ now < t.exp
        THEN [ok |-> TRUE, decodedToken |-> t]
        ELSE [ok |-> FALSE, decodedToken |-> NoToken]

MissingHeaderError == "Missing Authorization header."
InvalidTokenError == "Invalid or expired JWT token."
MissingNamespaceError == "Claims namespace not found."

ClaimsResult(error, claims, verified, token) ==
    [error |-> error, claims |-> claims, verified |-> verified, token |-> token]

\* what the try block of getClaims throws, "" when it returns
TryThrows(v) ==
    IF ~v.ok THEN "JWT.verify"
    ELSE IF v.decodedToken.ns.t # "object" THEN MissingNamespaceError
    ELSE ""

\* the catch block: whatever was thrown, one error is thrown in its place
Catch(thrown) == InvalidTokenError

\* the token taken by stripping a leading 'Bearer ' only
TokenOfPrefix(authorization) == ReplacePrefix(authorization.s, Bearer, <<>>)

\* the token of the header: authorization.replace('Bearer ', '')
TokenOf(authorization) == Replace(authorization.s, Bearer, <<>>)

\* verified: whether JWT.verify was called; token: the string it was given
getClaims(authorization) ==
    IF ~authorization.present \/ authorization.s = <<>>
    THEN ClaimsResult(MissingHeaderError, EmptyObject, FALSE, <<>>)
    ELSE LET token == TokenOf(authorization)
             v == verify(token, jwtKey)
             thrown == TryThrows(v)
         IN  IF thrown # ""
             THEN ClaimsResult(Catch(thrown), EmptyObject, TRUE, token)
             ELSE ClaimsResult("", v.decodedToken.ns.o, TRUE, token)

RECURSIVE getPermissionVariablesFromClaims(_)
getPermissionVariablesFromClaims(claims) ==
    IF claims = <<>> THEN EmptyObject
    ELSE LET n == Len(claims) IN
         ObjSet(getPermissionVariablesFromClaims(SubSeq(claims, 1, n - 1)),
                Replace(claims[n][1], XHasura, <<>>), claims[n][2])

\* JWKS.KeyStore holding jwtKey, under an RSA algorithm only
getJwkStore ==
    IF cfg.ALGORITHM \in RSA_TYPES
    THEN [ok |-> TRUE, keys |-> {jwtKey}]
    ELSE [ok |-> FALSE, keys |-> {}]

(***************************************************************************)
(* The environments the process can start in.                              *)
(***************************************************************************)
Algorithms == RSA_TYPES \cup SHA_TYPES \cup {"ES256"}

ConfigKeys ==
    {NoKeyString} \cup {KeyString(t, "env") : t \in {"pemRSAPrivate", "pemRSAPublic", "pemCorrupt", "raw"}}

KeyFile(exists, readable, writable, content) ==
    [exists |-> exists, readable |-> readable, writable |-> writable, content |-> content]

\* no file, a file that cannot be read, a file whose content is not a key
\* (the path can be written to or not), and readable files holding a key
KeyFiles ==
    {KeyFile(FALSE, FALSE, w, NoKeyString) : w \in BOOLEAN}
    \cup {KeyFile(TRUE, FALSE, w, KeyString("pemRSAPrivate", "file")) : w \in BOOLEAN}
    \cup {KeyFile(TRUE, TRUE, w, KeyString("pemCorrupt", "file")) : w \in BOOLEAN}
    \cup {KeyFile(TRUE, TRUE, TRUE, KeyString(t, "file")) :
            t \in {"pemRSAPrivate", "pemRSAPublic", "raw"}}

FirstName == <<"f", "i", "r", "s", "t", "N", "a", "m", "e">>
First_name == <<"f", "i", "r", "s", "t", "_", "n", "a", "m", "e">>
XHasuraId == <<"x", "H", "a", "s", "u", "r", "a", "I", "d">>

AccountData(id, is_anonymous, fields, default_role, account_roles) ==
    [user |-> [id |-> id, is_anonymous |-> is_anonymous, fields |-> fields],
     default_role |-> default_role,
     account_roles |-> account_roles]

Present(v) == [present |-> TRUE, v |-> v]
AbsentRole == [present |-> FALSE, v |-> ""]
AbsentRoles == [present |-> FALSE, v |-> <<>>]
NoFields == [f \in {} |-> VUndefined]

\* the accounts of the requests served by the running process
Accounts ==
    {AccountData("u1", FALSE, (FirstName :> VStr("Ann")), Present("user"),
                 Present(<<"user", "editor">>))}

NoCall == [op |-> "none"]

Ready == phase \in {"Loaded", "Generated"}

Init ==
    /\ cfg \in [ALGORITHM : Algorithms, KEY : ConfigKeys, CUSTOM_FIELDS : {<<FirstName>>}]
    /\ file \in KeyFiles
    /\ file0 = file
    /\ jwtKey = cfg.KEY
    /\ phase = "Uninitialized"
    /\ writes = 0
    /\ now = 0
    /\ issued = NoToken
    /\ last = NoCall
    /\ acct = NoCall
    /\ stage = 0

(***************************************************************************)
(* The set-up of the key, run once when the module is loaded. A throw      *)
(* leaves the module unloaded: none of its functions can be called.        *)
(***************************************************************************)
\* RSA algorithm, JWT_KEY given: JWK.asKey(jwtKey, {alg}) then toPEM(true)
InitExplicitKey ==
    /\ phase = "Uninitialized"
    /\ cfg.ALGORITHM \in RSA_TYPES
    /\ Truthy(jwtKey)
    /\ LET k == AsKey(jwtKey) IN
        /\ jwtKey' = IF k.ok THEN k.key ELSE jwtKey
        /\ phase' = IF k.ok /\ ToPEMPrivateOk(k.key) THEN "Loaded" ELSE "Failed"
    /\ UNCHANGED <<cfg, file, file0, writes, now, issued, last, acct, stage>>

\* fs.readFileSync followed by JWK.asKey(file), both in the try block
ReadKeyFile ==
    IF file.exists /\ file.readable THEN AsKey(file.content) ELSE [ok |-> FALSE, key |-> NoKeyString]

\* RSA algorithm, no JWT_KEY, the key file is read and parsed
InitReadKeyFile ==
    /\ phase = "Uninitialized"
    /\ cfg.ALGORITHM \in RSA_TYPES
    /\ ~Truthy(jwtKey)
    /\ ReadKeyFile.ok
    /\ jwtKey' = ReadKeyFile.key
    /\ phase' = "Loaded"
    /\ UNCHANGED <<cfg, file, file0, writes, now, issued, last, acct, stage>>

\* what fs.writeFileSync(KEY_FILE_PATH, pem) leaves at the path
WriteFile(f, pem) ==
    KeyFile(TRUE, IF f.exists THEN f.readable ELSE TRUE, f.writable, pem)

\* the key generated and written whether or not the key file was read
InitGenerateKeyUnguarded ==
    /\ phase = "Uninitialized"
    /\ cfg.ALGORITHM \in RSA_TYPES
    /\ ~Truthy(jwtKey)
    /\ jwtKey' = Jwk("RSA", TRUE, "generated")
    /\ IF file.writable
       THEN /\ file' = WriteFile(file, KeyString("pemRSAPrivate", "generated"))
            /\ writes' = writes + 1
            /\ phase' = "Generated"
       ELSE /\ UNCHANGED <<file, writes>>
            /\ phase' = "Failed"
    /\ UNCHANGED <<cfg, file0, now, issued, last, acct, stage>>

\* RSA algorithm, no JWT_KEY, the try block threw: a key is generated and
\* written to the key file; a throw of writeFileSync is not caught
InitGenerateKey ==
    /\ phase = "Uninitialized"
    /\ cfg.ALGORITHM \in RSA_TYPES
    /\ ~Truthy(jwtKey)
    /\ ~ReadKeyFile.ok
    /\ jwtKey' = Jwk("RSA", TRUE, "generated")
    /\ IF file.writable
       THEN /\ file' = WriteFile(file, KeyString("pemRSAPrivate", "generated"))
            /\ writes' = writes + 1
            /\ phase' = "Generated"
       ELSE /\ UNCHANGED <<file, writes>>
            /\ phase' = "Failed"
    /\ UNCHANGED <<cfg, file0, now, issued, last, acct, stage>>

\* SHA algorithm: the JWT_KEY is the secret, and must not be empty
InitSymmetric ==
    /\ phase = "Uninitialized"
    /\ cfg.ALGORITHM \in SHA_TYPES
    /\ phase' = IF ~Truthy(jwtKey) THEN "Failed" ELSE "Loaded"
    /\ UNCHANGED <<cfg, file, file0, jwtKey, writes, now, issued, last, acct, stage>>

InitInvalidAlgorithm ==
    /\ phase = "Uninitialized"
    /\ cfg.ALGORITHM \notin RSA_TYPES \cup SHA_TYPES
    /\ phase' = "Failed"
    /\ UNCHANGED <<cfg, file, file0, jwtKey, writes, now, issued, last, acct, stage>>

(***************************************************************************)
(* Calls of the exported functions. Each is one synchronous call: it runs  *)
(* to its end before any other call starts. last records the call and what *)
(* it returned.                                                            *)
(***************************************************************************)
CallGeneratePermissionVariables(account, jwt) ==
    /\ Ready
    /\ last' = [op |-> "generatePermissionVariables", account |-> account, jwt |-> jwt,
                result |-> generatePermissionVariables(account, jwt)]
    /\ UNCHANGED <<cfg, file, file0, jwtKey, phase, writes, now, issued, acct>>

\* sign importing the key on first use and keeping the imported key
CallSignImportingKey(payload, account) ==
    /\ Ready
    /\ LET r == sign(payload, account) IN
        /\ last' = [op |-> "sign", account |-> account, ok |-> r.ok, result |-> r.token]
        /\ issued' = IF r.ok THEN r.token ELSE issued
    /\ jwtKey' = AsKey(jwtKey).key
    /\ UNCHANGED <<cfg, file, file0, phase, writes, now, acct>>

CallSign(payload, account) ==
    /\ Ready
    /\ LET r == sign(payload, account) IN
        /\ last' = [op |-> "sign", account |-> account, ok |-> r.ok, result |-> r.token]
        /\ issued' = IF r.ok THEN r.token ELSE issued
    /\ UNCHANGED <<cfg, file, file0, jwtKey, phase, writes, now, acct>>

CallCreateHasuraJwt(account) ==
    /\ Ready
    /\ LET r == createHasuraJwt(account) IN
        /\ last' = [op |-> "createHasuraJwt", account |-> account, ok |-> r.ok, result |-> r.token]
        /\ issued' = IF r.ok THEN r.token ELSE issued
    /\ UNCHANGED <<cfg, file, file0, jwtKey, phase, writes, now, acct>>

CallGetClaims(authorization) ==
    /\ Ready
    /\ last' = [op |-> "getClaims", authorization |-> authorization, at |-> now,
                result |-> getClaims(authorization)]
    /\ UNCHANGED <<cfg, file, file0, jwtKey, phase, writes, now, issued, acct>>

\* called on the claims that the getClaims call before it returned
CallGetPermissionVariablesFromClaims ==
    /\ Ready
    /\ last.op = "getClaims"
    /\ last.result.error = ""
    /\ last' = [op |-> "getPermissionVariablesFromClaims", claims |-> last.result.claims,
                result |-> getPermissionVariablesFromClaims(last.result.claims)]
    /\ UNCHANGED <<cfg, file, file0, jwtKey, phase, writes, now, issued, acct>>

CallGetJwkStore ==
    /\ Ready
    /\ last' = [op |-> "getJwkStore", ok |-> getJwkStore.ok, result |-> getJwkStore.keys]
    /\ UNCHANGED <<cfg, file, file0, jwtKey, phase, writes, now, issued, acct>>

\* a minute passes
Tick ==
    /\ now < MaxTime
    /\ now' = now + 1
    /\ UNCHANGED <<cfg, file, file0, jwtKey, phase, writes, issued, last, acct, stage>>

(***************************************************************************)
(* What callers hand to the functions.                                     *)
(***************************************************************************)
\* a token signed elsewhere, with a key this process does not hold, that
\* claims the admin role and does not expire within the run
ForgedToken ==
    Token(cfg.ALGORITHM, "foreign", "u1", 0, MaxTime + EXPIRES_IN + 1,
          NsObject(ObjectFrom(<< <<XHasura \o DefaultRoleKey, VStr("admin")>> >>)))

KnownTokens == (IF issued = NoToken THEN {} ELSE {issued}) \cup {ForgedToken}

TokenWord == Str(<<"T", "o", "k", "e", "n", " ">>)

Headers ==
    {NoHeader, Header(<<>>), Header(Bearer), Header(TokenWord \o Str(<<"a", "b", "c">>))}
    \cup {Header(Bearer \o <<JwtSym(t)>>) : t \in KnownTokens}
    \cup {Header(<<JwtSym(t)>>) : t \in KnownTokens}
    \cup {Header(TokenWord \o Bearer \o <<JwtSym(t)>>) : t \in KnownTokens}

\* sign is exported: a caller may sign a payload without the namespace
Payloads == {[ns |-> NsUndefined]}

GeneratePermissionVariables ==
    /\ \E account \in Accounts, jwt \in BOOLEAN : CallGeneratePermissionVariables(account, jwt)
    /\ UNCHANGED stage

Sign ==
    /\ \E payload \in Payloads, account \in Accounts : CallSign(payload, account)
    /\ UNCHANGED stage

CreateHasuraJwt ==
    /\ \E account \in Accounts : CallCreateHasuraJwt(account)
    /\ UNCHANGED stage

GetClaims ==
    /\ \E authorization \in Headers : CallGetClaims(authorization)
    /\ UNCHANGED stage

GetPermissionVariablesFromClaims ==
    /\ CallGetPermissionVariablesFromClaims
    /\ UNCHANGED stage

GetJwkStore ==
    /\ CallGetJwkStore
    /\ UNCHANGED stage

Next ==
    \/ InitExplicitKey
    \/ InitReadKeyFile
    \/ InitGenerateKey
    \/ InitSymmetric
    \/ InitInvalidAlgorithm
    \/ GeneratePermissionVariables
    \/ Sign
    \/ CreateHasuraJwt
    \/ GetClaims
    \/ GetPermissionVariablesFromClaims
    \/ GetJwkStore
    \/ Tick

Spec == Init /\ [][Next]_vars

(***************************************************************************)
(* One request followed from the account to the permission variables read  *)
(* back from its token: the account and the custom fields are drawn from   *)
(* bounded sets, then generatePermissionVariables, createHasuraJwt,        *)
(* getClaims and getPermissionVariablesFromClaims are applied in turn.     *)
(***************************************************************************)
Roles == {"user", "editor", "anonymous"}

RoleSeqs == UNION {[1..n -> Roles] : n \in 0..MaxRoles}

DefaultRoles == {AbsentRole, Present("")} \cup {Present(r) : r \in Roles}

AccountRoles == {AbsentRoles} \cup {Present(rs) : rs \in RoleSeqs}

\* the values a user record may hold for a custom field: every kind of
\* value for firstName, one or two for the other fields
FieldValues(name) ==
    CASE name = <<"f", "i", "r", "s", "t", "N", "a", "m", "e">> ->
            {VStr("Ann"), VArr(<<"a", "b">>), VNum(5), VBool(TRUE), VUndefined}
      [] name = <<"f", "i", "r", "s", "t", "_", "n", "a", "m", "e">> ->
            {VStr("Bob"), VNull}
      [] name = <<"a", "l", "l", "o", "w", "e", "d", "_", "r", "o", "l", "e", "s">> ->
            {VArr(<<"admin">>)}
      [] name = <<"d", "e", "f", "a", "u", "l", "t", "R", "o", "l", "e">> ->
            {VStr("admin")}
      [] OTHER -> {VObject}

DefaultRoleField == <<"d", "e", "f", "a", "u", "l", "t", "R", "o", "l", "e">>
AllowedRolesField == <<"a", "l", "l", "o", "w", "e", "d", "_", "r", "o", "l", "e", "s">>

\* the JWT_CUSTOM_FIELDS lists: none, a camel-case name, a name that holds
\* "xHasura", two names with one kebab-case form, names whose kebab-case
\* form is the key of a base attribute
FieldLists ==
    {<<>>, <<FirstName>>, <<XHasuraId>>, <<FirstName, First_name>>,
     <<DefaultRoleField>>, <<AllowedRolesField>>}

Range(seq) == {seq[i] : i \in DOMAIN seq}

AccountDatas(customFields) ==
    {AccountData("u1", anon, fields, dr, ars) :
        anon \in BOOLEAN,
        fields \in {f \in [Range(customFields) -> UNION {FieldValues(n) : n \in Range(customFields)}] :
                        \A n \in Range(customFields) : f[n] \in FieldValues(n)},
        dr \in DefaultRoles,
        ars \in AccountRoles}

InitPerm ==
    /\ cfg \in [ALGORITHM : {"RS256"}, KEY : {NoKeyString}, CUSTOM_FIELDS : FieldLists]
    /\ file = KeyFile(FALSE, FALSE, TRUE, NoKeyString)
    /\ file0 = file
    /\ jwtKey = cfg.KEY
    /\ phase = "Uninitialized"
    /\ writes = 0
    /\ now = 0
    /\ issued = NoToken
    /\ last = NoCall
    /\ acct \in AccountDatas(cfg.CUSTOM_FIELDS)
    /\ stage = 0

PermBuild ==
    /\ stage = 0
    /\ \E jwt \in BOOLEAN : CallGeneratePermissionVariables(acct, jwt)
    /\ stage' = 1

PermIssue ==
    /\ stage = 1
    /\ CallCreateHasuraJwt(acct)
    /\ stage' = 2

\* time passes between the issuing of the token and its use
PermTick ==
    /\ stage = 2
    /\ Tick

PermVerify ==
    /\ stage = 2
    /\ issued # NoToken
    /\ CallGetClaims(Header(Bearer \o <<JwtSym(issued)>>))
    /\ stage' = 3

PermMap ==
    /\ stage = 3
    /\ CallGetPermissionVariablesFromClaims
    /\ stage' = 4

NextPerm ==
    \/ InitGenerateKey
    \/ PermBuild
    \/ PermIssue
    \/ PermTick
    \/ PermVerify
    \/ PermMap

SpecPerm == InitPerm /\ [][NextPerm]_vars

(***************************************************************************)
(* Properties of the permission variables (checked under SpecPerm).        *)
(***************************************************************************)
Count(seq, x) == Cardinality({i \in DOMAIN seq : seq[i] = x})

IsPrefixOf(a, b) == Len(a) <= Len(b) /\ SubSeq(b, 1, Len(a)) = a

PrefixOfCall == IF last.jwt THEN XHasura ELSE <<>>

RoleNamesOf(account) ==
    IF account.account_roles.present THEN account.account_roles.v ELSE <<>>

\* no configured custom field has the kebab-case form k
NoCustomFieldAt(k) == \A i \in DOMAIN cfg.CUSTOM_FIELDS : kebabCase(cfg.CUSTOM_FIELDS[i]) # k

C4_Original ==
    last.op = "generatePermissionVariables" =>
        LET a == last.account IN
        Get(last.result, PrefixOfCall \o DefaultRoleKey) =
            VStr(IF a.user.is_anonymous THEN DEFAULT_ANONYMOUS_ROLE
                 ELSE IF a.default_role.present THEN a.default_role.v
                 ELSE DEFAULT_USER_ROLE)

\* C4 as amended: default-role is the anonymous role for an anonymous user,
\* and for any other user default_role when present and not the empty
\* string, the default user role otherwise; this when no custom field has
\* the kebab-case form default-role.
C4_DefaultRole ==
    (last.op = "generatePermissionVariables" /\ NoCustomFieldAt(DefaultRoleKey)) =>
        LET a == last.account IN
        Get(last.result, PrefixOfCall \o DefaultRoleKey) =
            VStr(IF a.user.is_anonymous THEN DEFAULT_ANONYMOUS_ROLE
                 ELSE IF a.default_role.present /\ a.default_role.v # "" THEN a.default_role.v
                 ELSE DEFAULT_USER_ROLE)

C4_Witness ==
    /\ last.op = "generatePermissionVariables"
    /\ last.account.user.is_anonymous
    /\ last.account.default_role = Present("editor")
    /\ NoCustomFieldAt(DefaultRoleKey)

\* C5 as claimed: allowed-roles holds the effective role exactly once; it is
\* the role names of account_roles when they hold the effective role, and
\* those names followed by the effective role when they do not.
C5_Original ==
    last.op = "generatePermissionVariables" =>
        LET names == RoleNamesOf(last.account)
            role == EffectiveRole(last.account)
            allowed == Get(last.result, PrefixOfCall \o AllowedRolesKey).a
        IN  /\ Count(allowed, role) = 1
            /\ Includes(names, role) => allowed = names
            /\ ~Includes(names, role) => allowed = names \o <<role>>

\* C5 as amended: allowed-roles is the role names of account_roles when they
\* hold the effective role (which then occurs as often as it does there), and
\* those names followed by the effective role, once, when they do not; this
\* when no custom field has the kebab-case form allowed-roles.
C5_AllowedRoles ==
    (last.op = "generatePermissionVariables" /\ NoCustomFieldAt(AllowedRolesKey)) =>
        LET names == RoleNamesOf(last.account)
            role == EffectiveRole(last.account)
            allowed == Get(last.result, PrefixOfCall \o AllowedRolesKey).a
        IN  /\ IsPrefixOf(names, allowed)
            /\ Count(allowed, role) = (IF Count(names, role) = 0 THEN 1 ELSE Count(names, role))
            /\ Len(allowed) = Len(names) + (IF Count(names, role) = 0 THEN 1 ELSE 0)

C5_Witness ==
    /\ last.op = "generatePermissionVariables"
    /\ NoCustomFieldAt(AllowedRolesKey)
    /\ last.account.account_roles = Present(<<"editor", "editor">>)
    /\ Get(last.result, PrefixOfCall \o AllowedRolesKey).a = <<"editor", "editor", "user">>

(***************************************************************************)
(* Properties of the key set-up and of verification (checked under Spec).  *)
(***************************************************************************)
\* the tokens a header holds
HeaderTokens(authorization) ==
    {authorization.s[i].jwt : i \in {j \in DOMAIN authorization.s : authorization.s[j].jwt # NoToken}}

\* the compact token that the string s is, NoToken when it is none
TokenIn(s) == IF Len(s) = 1 THEN s[1].jwt ELSE NoToken

\* C2: a getClaims call on a token past its expiry, or on a token signed
\* with a key other than the active key, fails with the invalid-token error
\* and returns no claims.
C2_RejectsUnverified ==
    last.op = "getClaims" =>
        \A t \in HeaderTokens(last.authorization) :
            (last.at > t.exp \/ t.sig # jwtKey.id) =>
                /\ last.result.error = InvalidTokenError
                /\ last.result.claims = EmptyObject

C2_Witness ==
    /\ last.op = "getClaims"
    /\ issued # NoToken
    /\ issued.sig = jwtKey.id
    /\ issued.ns.t = "object"
    /\ last.authorization = Header(Bearer \o <<JwtSym(issued)>>)
    /\ last.at > issued.exp
    /\ last.result.error = InvalidTokenError

\* C3 as claimed: a getClaims call on a token that verifies (signed with the
\* active key, not expired) and has nothing at the claims namespace fails
\* with the missing-namespace error, which is not the invalid-token error.
C3_Original ==
    /\ MissingNamespaceError # InvalidTokenError
    /\ last.op = "getClaims" =>
         LET t == TokenIn(last.result.token) IN
         (/\ last.result.verified
          /\ t # NoToken
          /\ t.sig = jwtKey.id
          /\ CanVerify(AsKey(jwtKey).key, t.alg)
          /\ last.at < t.exp
          /\ t.ns.t # "object") => last.result.error = MissingNamespaceError

\* C6: once the set-up has ended the key never changes, no function runs
\* before the set-up has ended, and every token signed carries the
\* signature of that key and every token accepted was verified against it.
C6_KeyNeverChanges ==
    [][/\ Ready => (jwtKey' = jwtKey /\ phase' = phase)
       /\ last' # last => (Ready /\ jwtKey' = jwtKey)
       /\ issued' # issued => issued'.sig = jwtKey'.id
       /\ (last' # last /\ last'.op = "getClaims" /\ last'.result.error = "") =>
            TokenIn(last'.result.token).sig = jwtKey'.id]_vars

C6_Witness ==
    /\ Ready
    /\ jwtKey.form = "string"
    /\ now > 0
    /\ issued # NoToken
    /\ last.op = "getClaims"
    /\ last.result.error = ""

ExplicitKeyInvalid == Truthy(cfg.KEY) /\ cfg.KEY.text # "pemRSAPrivate"

\* C7 as claimed: when the set-up ends without an error the algorithm is one
\* of the six, and the active key is an RSA private key under an RS
\* algorithm and a non-empty secret under an HS algorithm; an unrecognised
\* algorithm, explicit key material that is no RSA private key under an RS
\* algorithm and an empty secret under an HS algorithm end the set-up in
\* Failed.
C7_Original ==
    /\ Ready =>
         /\ cfg.ALGORITHM \in RSA_TYPES \cup SHA_TYPES
         /\ cfg.ALGORITHM \in RSA_TYPES =>
              (jwtKey.form = "jwk" /\ jwtKey.kty = "RSA" /\ jwtKey.priv)
         /\ cfg.ALGORITHM \in SHA_TYPES => Truthy(jwtKey)
    /\ (/\ phase # "Uninitialized"
        /\ \/ cfg.ALGORITHM \notin RSA_TYPES \cup SHA_TYPES
           \/ cfg.ALGORITHM \in RSA_TYPES /\ ExplicitKeyInvalid
           \/ cfg.ALGORITHM \in SHA_TYPES /\ ~Truthy(cfg.KEY)) => phase = "Failed"

\* whether the file f can be read and its content parsed as a key
ReadAndParsed(f) == f.exists /\ f.readable /\ AsKey(f.content).ok

\* C8 as claimed: the key file is written only when no key material was
\* configured and no file was at the path; a file that is at the path is
\* never overwritten, and a file that was read ends the set-up in Loaded with
\* the key of the file; nothing is written when key material is configured,
\* when the algorithm is symmetric or when the set-up ends in Failed.
C8_Original ==
    /\ writes > 0 => (~Truthy(cfg.KEY) /\ ~file0.exists)
    /\ file0.exists => file = file0
    /\ (/\ phase # "Uninitialized"
        /\ cfg.ALGORITHM \in RSA_TYPES
        /\ ~Truthy(cfg.KEY)
        /\ file0.exists /\ file0.readable) => (phase = "Loaded" /\ jwtKey.id = file0.content.id)
    /\ (Truthy(cfg.KEY) \/ cfg.ALGORITHM \in SHA_TYPES \/ phase = "Failed") =>
         (writes = 0 /\ file = file0)

\* C8 as amended: the key file is written only under an RS algorithm, when
\* no key material was configured and the file at the path could not be read
\* and parsed as a key (no file, an unreadable file, a content that is no
\* key); a file that was read and parsed is never overwritten and ends the
\* set-up in Loaded with the key of the file; no write completes when key
\* material is configured, when the algorithm is symmetric or when the
\* set-up ends in Failed.
C8_KeyFileWrite ==
    /\ (writes > 0 \/ file # file0) =>
         /\ cfg.ALGORITHM \in RSA_TYPES
         /\ ~Truthy(cfg.KEY)
         /\ ~ReadAndParsed(file0)
         /\ writes = 1
         /\ phase = "Generated"
         /\ file.content = KeyString("pemRSAPrivate", jwtKey.id)
    /\ (/\ phase # "Uninitialized"
        /\ cfg.ALGORITHM \in RSA_TYPES
        /\ ~Truthy(cfg.KEY)
        /\ ReadAndParsed(file0)) =>
            (phase = "Loaded" /\ file = file0 /\ jwtKey = AsKey(file0.content).key)
    /\ (Truthy(cfg.KEY) \/ cfg.ALGORITHM \in SHA_TYPES \/ phase = "Failed") =>
         (writes = 0 /\ file = file0)

C8_Witness ==
    /\ phase = "Generated"
    /\ writes = 1
    /\ file0.exists /\ file0.readable
    /\ file0.content.text = "pemCorrupt"
    /\ file.content = KeyString("pemRSAPrivate", "generated")

\* C9 as claimed: under an RS algorithm with no key material and a failed
\* read of the key file, a failed write of the generated key still ends the
\* set-up in Generated, with the generated key active.
C9_Original ==
    (/\ phase # "Uninitialized"
     /\ cfg.ALGORITHM \in RSA_TYPES
     /\ ~Truthy(cfg.KEY)
     /\ ~ReadAndParsed(file0)
     /\ ~file0.writable) =>
        (phase = "Generated" /\ jwtKey = Jwk("RSA", TRUE, "generated"))

\* C10 as claimed: the string handed to verification is the header without
\* its leading 'Bearer ' when it starts with 'Bearer ', and the header as it
\* is when it does not; an absent header fails with the missing-header error
\* before any verification.
C10_Original ==
    last.op = "getClaims" =>
        LET h == last.authorization
            r == last.result
        IN  /\ ~h.present => (r.error = MissingHeaderError /\ ~r.verified)
            /\ (h.present /\ h.s # <<>>) =>
                 /\ r.verified
                 /\ StartsWith(h.s, Bearer) => r.token = SubSeq(h.s, Len(Bearer) + 1, Len(h.s))
                 /\ ~StartsWith(h.s, Bearer) => r.token = h.s

\* C10 as amended: the string handed to verification is the header with the
\* first 'Bearer ' in it removed, wherever it stands, and the header as it is
\* when it holds no 'Bearer '; an absent header fails with the
\* missing-header error before any verification.
C10_BearerStripped ==
    last.op = "getClaims" =>
        LET h == last.authorization
            r == last.result
        IN  /\ ~h.present => (r.error = MissingHeaderError /\ ~r.verified)
            /\ (h.present /\ h.s # <<>>) =>
                 /\ r.verified
                 /\ \/ /\ \A i \in DOMAIN h.s : ~OccursAt(h.s, Bearer, i)
                       /\ r.token = h.s
                    \/ \E i \in DOMAIN h.s :
                         /\ OccursAt(h.s, Bearer, i)
                         /\ \A j \in 1..(i - 1) : ~OccursAt(h.s, Bearer, j)
                         /\ r.token = SubSeq(h.s, 1, i - 1) \o SubSeq(h.s, i + Len(Bearer), Len(h.s))

C10_Witness ==
    /\ last.op = "getClaims"
    /\ issued # NoToken
    /\ last.authorization = Header(TokenWord \o Bearer \o <<JwtSym(issued)>>)
    /\ last.result.token = TokenWord \o <<JwtSym(issued)>>
    /\ last.result.error = InvalidTokenError

====
